---------------------------- MODULE Spec2Model ----------------------------
(***************************************************************************)
(* A model of can_testbench (src/can_testbench.py): the outgoing message   *)
(* tables (TxMsgModel), the bus handler that owns the periodic send tasks  *)
(* (CanBusHandler) and the receive path (RxTab / RxMsgModel).              *)
(*                                                                         *)
(* Numbers.  Signal values are integers.  A decimal string typed by the    *)
(* operator is a rational h / InputDen (InputDen = 2: halves), so that the *)
(* rounding of TxMsgModel.setData is visible.  A period is 1/frequency     *)
(* seconds, held in milliseconds.  A payload is the little-endian integer  *)
(* of the packed signal bits.                                              *)
(*                                                                         *)
(* The transport (python-can) is outside the repository.  What the model   *)
(* takes from it is its documented contract at the call sites: bus.send    *)
(* transmits one frame; bus.send_periodic(msg, period, modifier_callback)  *)
(* returns a started task that holds the Message object it was given (the  *)
(* callback receives that very object before every transmission);          *)
(* task.stop() and task.start() stop and restart that task.                *)
(* A failing bus.send raises CanError; a periodic task created without an  *)
(* on_error handler stops itself at the first failing transmission;        *)
(* bus.shutdown() stops every periodic task of the bus.                    *)
(*                                                                         *)
(* The toolkit (PySide6) and the codec (cantools) are outside as well.     *)
(* A signal emitted from another thread than the receiver's is queued to   *)
(* the receiver's thread (default connection type); an exception leaving a *)
(* slot is reported and the event loop goes on.  Message.encode with       *)
(* strict=True raises on a value outside the signal's bounds or bits, a    *)
(* string is encoded by the signal's choices, and Message.decode raises on *)
(* data shorter than the message and gives a NamedSignalValue for a raw    *)
(* value that is a choice.  A named value is held as a number from OFF on. *)
(***************************************************************************)
EXTENDS Integers, Sequences, FiniteSets, TLC

VARIABLES
    txMsgs,        \* TabManager.txMsgs: names of the outgoing messages, in catalog order
    rxMsgs,        \* TabManager.rxMsgs: names of the incoming messages, in catalog order
    value,         \* DbcSignal.value of every signal: value[m][row]
    sigValues,     \* TxMsgModel.sigValues[row]: the pending (edited) values
    data,          \* TxMsgModel.canBusMsg.data
    isSend,        \* TxMsgModel.isSend
    isQueue,       \* TxMsgModel.isQueue
    frequency,     \* MsgModel.frequency (Hz)
    sendCheckBox,  \* TxMessageLayout.sendCheckBox: checked or not
    applyEnabled,  \* TxMessageLayout.applyButton: enabled or not
    periodicMsgs,  \* CanBusHandler.periodicMsgs: arbitration id -> NoEntry or sendDetails
    running,       \* the tasks of the bus that are started and not stopped
    busLog,        \* what the last step did on the bus: calls made and frames transmitted
    lastAct,       \* the handler the last step ran, and for which message
    graphValues,   \* DbcSignal.graphValues of the incoming signals: graphValues[m][row]
    timestamps,    \* DbcMessage.timestamps of the incoming messages
    lastReceived,  \* RxMsgModel.lastReceived (0: None)
    rxDelta,       \* RxMsgModel.rxDelta (-1: None)
    rowsUpdated,   \* RxMsgModel.rowsUpdated
    rxFrame,       \* the frame the transport delivered last
    rxCount,       \* how many frames the transport has delivered
    guiQueue,      \* the event queue of the GUI thread: signal emissions posted to it
    updating,      \* the handlers that are part-way through writing a value table
    dbcDb,         \* dbcDb.messages: the names of the catalog's messages, in order
    isLogging,     \* config.option()['interface'] == 'Logging'
    isListenMode,  \* config.getListenMode()
    busFails,      \* the transport is in a state in which a send raises an error
    isShutdown,    \* CanTabManager.shutdown has run: the tabs are deleted, the bus is shut down
    peer,          \* another testbench on the bus that sends a message of the catalog:
                   \* the values it applied and the payload getMsgData gave it
    signal_db,     \* can_send.py, msg_sender.signal_db of every sender: per signal the
                   \* raw bounds it sweeps, or the list of its choice keys
    signal_values, \* msg_sender.signal_values of every sender: the raw value to send next
    sent,          \* the last call of send_message: its sender, the values it encoded
                   \* and whether the frame went out
    sentThisPass,  \* the senders the pass of the main loop has called so far
    openTabs,      \* MainApp.openTabs: the session registered for a channel
    sessions,      \* every bus connectCan has opened, in order: its channel, whether the
                   \* bus is open, whether its notifier runs, how often it was shut down
    closed         \* the window has had its closeEvent

txVars == <<sigValues, data, isSend, isQueue, frequency, sendCheckBox, applyEnabled,
            periodicMsgs, running, busLog>>

rxVars == <<graphValues, timestamps, lastReceived, rxDelta, rowsUpdated>>

thrVars == <<guiQueue, updating>>

cfgVars == <<dbcDb, isLogging, isListenMode>>

busVars == <<busFails, isShutdown, peer>>

simVars == <<signal_db, signal_values, sent, sentThisPass>>

appVars == <<openTabs, sessions, closed>>

vars == <<txMsgs, rxMsgs, value, txVars, rxVars, lastAct, rxFrame, rxCount, thrVars, cfgVars,
          busVars, simVars, appVars>>

-----------------------------------------------------------------------------
(* Bounds of the model *)

\* where two messages share the bus, the operator types the decimal strings
\* h / InputDen with 0 <= h <= MaxInput
MaxInput == 3

\* where one message is edited alone, the decimal strings are h / InputDen with
\* 0 - MinInput <= h <= MaxEditInput, and the '0x' strings are 0x0 .. MaxHex
MinInput == 1
MaxEditInput == 10
MaxHex == 1

\* where a signal has no maximum, the operator types the whole values
\* 0 .. MaxWideInput
MaxWideInput == 4

\* the transport delivers at most MaxFrames frames
MaxFrames == 3

\* the payloads of the delivered frames are 0 .. MaxPayload
MaxPayload == 5

\* where the graph history is watched, the transport delivers at most
\* MaxGraphFrames frames
MaxGraphFrames == 101

\* the logical values a peer applies are 0 .. MaxLogical
MaxLogical == 4

\* where two threads run, the payloads of the delivered frames are 0 .. MaxThreadPayload
MaxThreadPayload == 1

\* the denominator of the decimal strings the operator types (halves)
InputDen == 2

-----------------------------------------------------------------------------
(* The catalog: cantools' Message and Signal objects, as the DBC file gives them *)

\* MessageLayout.FrequencyValues is [0, 1, 5, 10, 20, 40, 50, 100]; the model keeps
\* the one-shot value and two periodic ones
FrequencyValues == {0, 1, 5}

Sig(start, length, scale, hasMin, minimum, hasMax, maximum, initial) ==
    [start |-> start, length |-> length, scale |-> scale, offset |-> 0,
     hasMin |-> hasMin, minimum |-> minimum, hasMax |-> hasMax, maximum |-> maximum,
     initial |-> initial, choices |-> << >>]

\* the names of a NamedSignalValue: a value is a number or a name, and the
\* numbers from OFF on, which no signal of the catalog reaches, are the names
OFF == 100
ON == 101

IsName(v) == v >= OFF

\* a signal of one bit with the choices {0: OFF, 1: ON}, its initial value a
\* NamedSignalValue
EnumSig(start, initial) ==
    [start |-> start, length |-> 1, scale |-> 1, offset |-> 0,
     hasMin |-> TRUE, minimum |-> 0, hasMax |-> TRUE, maximum |-> 1,
     initial |-> initial, choices |-> (0 :> OFF @@ 1 :> ON)]

\* every message any catalog of the model holds
DbcMessages ==
    [A |-> [frame_id |-> 1, is_extended_frame |-> FALSE, length |-> 1, senders |-> {"VCU"}, cycle_time |-> 0,
            signals |-> << Sig(0, 2, 1, TRUE, 0, TRUE, 1, 0) >>],
     B |-> [frame_id |-> 1, is_extended_frame |-> TRUE, length |-> 1, senders |-> {"VCU"}, cycle_time |-> 1000,
            signals |-> << Sig(0, 2, 1, TRUE, 0, TRUE, 1, 0) >>],
     R |-> [frame_id |-> 2, is_extended_frame |-> FALSE, length |-> 1, senders |-> {"BMS"}, cycle_time |-> 0,
            signals |-> << Sig(0, 2, 1, TRUE, 0, TRUE, 3, 0),
                           EnumSig(2, OFF) >>],
     Q |-> [frame_id |-> 3, is_extended_frame |-> FALSE, length |-> 1, senders |-> {"VCU"}, cycle_time |-> 200,
            signals |-> << Sig(0, 4, 2, TRUE, 1, TRUE, 4, 2),
                           Sig(4, 2, 1, TRUE, 0, TRUE, 1, 0) >>],
     N |-> [frame_id |-> 4, is_extended_frame |-> FALSE, length |-> 1, senders |-> {}, cycle_time |-> 0,
            signals |-> << Sig(0, 2, 1, TRUE, 0, TRUE, 1, 0) >>],
     E |-> [frame_id |-> 5, is_extended_frame |-> FALSE, length |-> 1, senders |-> {"VCU"}, cycle_time |-> 0,
            signals |-> << EnumSig(0, OFF) >>],
     F |-> [frame_id |-> 6, is_extended_frame |-> FALSE, length |-> 1, senders |-> {"VCU"}, cycle_time |-> 0,
            signals |-> << EnumSig(0, ON) >>],
     U |-> [frame_id |-> 8, is_extended_frame |-> FALSE, length |-> 1, senders |-> {"VCU"}, cycle_time |-> 0,
            signals |-> << Sig(0, 2, 1, TRUE, 0, FALSE, 0, 0) >>],
     M |-> [frame_id |-> 9, is_extended_frame |-> FALSE, length |-> 1, senders |-> {"VCU"}, cycle_time |-> 0,
            signals |-> << Sig(0, 2, 1, TRUE, 1, TRUE, 3, 0) >>]]

MsgNames == DOMAIN DbcMessages

Rows(m) == DOMAIN DbcMessages[m].signals

SeqToSet(s) == {s[i] : i \in DOMAIN s}

ArbIds == {DbcMessages[m].frame_id : m \in MsgNames}

-----------------------------------------------------------------------------
(* The codec: cantools' strict encode, as MsgModel.getMsgData calls it *)

\* Python's round(): to the nearest integer, a tie to the even one; n / d, d # 0
RoundHalfEven(n, d) ==
    LET num == IF d < 0 THEN 0 - n ELSE n
        den == IF d < 0 THEN 0 - d ELSE d
        q == num \div den
        r == num % den
    IN  IF 2 * r < den THEN q
        ELSE IF 2 * r > den THEN q + 1
        ELSE IF q % 2 = 0 THEN q ELSE q + 1

Pow2(n) == 2 ^ n

\* mutant: the value is not divided by the scale
ScaledToRawUnscaled(sig, v) == v - sig.offset

\* conversion.numeric_scaled_to_raw: round((scaled - offset) / scale)
ScaledToRaw(sig, v) == RoundHalfEven(v - sig.offset, sig.scale)

\* strict=True: every value within the signal's minimum and maximum, when given
InRange(sig, v) ==
    /\ (sig.hasMin => v >= sig.minimum)
    /\ (sig.hasMax => v <= sig.maximum)

\* the raw value fits the signal's bits (unsigned signals)
FitsBits(sig, raw) == raw >= 0 /\ raw < Pow2(sig.length)

\* the signal has a choice of this name
HasChoice(sig, name) == \E raw \in DOMAIN sig.choices : sig.choices[raw] = name

\* conversion.choice_to_number: the raw value of a name
ChoiceToNumber(sig, name) == CHOOSE raw \in DOMAIN sig.choices : sig.choices[raw] = name

\* the raw value of a signal's value: a name by its choice, a number scaled
RawOf(sig, v) == IF IsName(v) THEN ChoiceToNumber(sig, v) ELSE ScaledToRaw(sig, v)

\* strict=True: a name is one of the signal's choices; a number lies within
\* the minimum and maximum and fits the bits
Valid(sig, v) ==
    IF IsName(v) THEN HasChoice(sig, v)
    ELSE InRange(sig, v) /\ FitsBits(sig, ScaledToRaw(sig, v))

RECURSIVE PackFrom(_, _, _)
PackFrom(sigs, vals, i) ==
    IF i > Len(sigs) THEN 0
    ELSE RawOf(sigs[i], vals[i]) * Pow2(sigs[i].start) + PackFrom(sigs, vals, i + 1)

\* Message.encode(signalDict, strict=True): the payload, or an EncodeError (a
\* signal without an entry, a value that is not valid)
Encode(m, vals) ==
    LET sigs == DbcMessages[m].signals
        ok == DOMAIN vals = DOMAIN sigs /\ \A i \in DOMAIN sigs : Valid(sigs[i], vals[i])
    IN  [ok |-> ok, data |-> IF ok THEN PackFrom(sigs, vals, 1) ELSE 0]

\* MsgModel.getMsgData: the strict encoding of the signals' current values
getMsgData(m, vals) == Encode(m, vals)

-----------------------------------------------------------------------------
(* The program state as one record, so that a handler is a function of it *)

NoTask == [msg |-> "", period |-> 0]

\* periodicMsgs.get(id) is None
NoEntry == [present |-> FALSE, data |-> 0, period |-> 0, task |-> NoTask]

LogEntry(op, m, period, d) == [op |-> op, msg |-> m, period |-> period, data |-> d]

State ==
    [value |-> value, sigValues |-> sigValues, data |-> data, isSend |-> isSend,
     isQueue |-> isQueue, frequency |-> frequency, sendCheckBox |-> sendCheckBox,
     applyEnabled |-> applyEnabled, periodicMsgs |-> periodicMsgs,
     running |-> running, busLog |-> <<>>, busFails |-> busFails, raised |-> FALSE]

Logged(s, e) == [s EXCEPT !.busLog = Append(@, e)]

-----------------------------------------------------------------------------
(* CanBusHandler *)

\* period = 1/frequency, in milliseconds
PeriodOf(freq) == 1000 \div freq

\* an exception leaves the handler and every caller of it
Raised(s) == [s EXCEPT !.raised = TRUE]

\* bus.send(msg): one frame on the wire, with the message's current payload, or
\* an error of the transport
BusSend(s, m) ==
    IF s.busFails THEN Raised(s) ELSE Logged(s, LogEntry("send", m, 0, s.data[m]))

\* bus.send_periodic(msg, period, modifier_callback=emitMessageSend): a new task,
\* started, holding the Message object of m
SendPeriodic(s, m, period) ==
    LET task == [msg |-> m, period |-> period]
    IN  Logged([s EXCEPT !.running = @ \cup {task}],
               LogEntry("send_periodic", m, period, s.data[m]))

\* task.stop()
TaskStop(s, task) ==
    Logged([s EXCEPT !.running = @ \ {task}], LogEntry("stop", task.msg, task.period, 0))

\* task.start()
TaskStart(s, task) ==
    Logged([s EXCEPT !.running = @ \cup {task}], LogEntry("start", task.msg, task.period, 0))

\* mutant: the comparison with the recorded period never finds a difference
PeriodNeverDiffers(recorded, period) == FALSE

\* sendDetails['period'] != [period]: a number compared with a one-element list,
\* which Python finds unequal whatever the numbers are
PeriodDiffersFromList(recorded, period) == TRUE

\* CanBusHandler.emitMessageSend, called after a one-shot send
emitMessageSend(s, m) == Logged(s, LogEntry("messageSent", m, 0, s.data[m]))

\* mutant: a changed message gets its new task while the old one is left running
sendCanMessageNoStop(s, m, freq) ==
    LET id == DbcMessages[m].frame_id
        sendDetails == s.periodicMsgs[id]
        period == PeriodOf(freq)
        entry == [present |-> TRUE, data |-> s.data[m], period |-> period,
                  task |-> [msg |-> m, period |-> period]]
    IN  IF freq = 0 THEN Logged(BusSend(s, m), LogEntry("messageSent", m, 0, s.data[m]))
        ELSE IF ~sendDetails.present
                  \/ sendDetails.period # period \/ sendDetails.data # s.data[m]
             THEN [SendPeriodic(s, m, period) EXCEPT !.periodicMsgs[id] = entry]
             ELSE TaskStart(s, sendDetails.task)

\* sendCanMessage with a frequency other than 0: the else branch
sendPeriodically(s, m, freq) ==
    LET id == DbcMessages[m].frame_id
        sendDetails == s.periodicMsgs[id]
    IN
          LET period == PeriodOf(freq)
          IN  IF ~sendDetails.present THEN
                LET s1 == SendPeriodic(s, m, period)
                IN  [s1 EXCEPT !.periodicMsgs[id] =
                        [present |-> TRUE, data |-> s.data[m], period |-> period,
                         task |-> [msg |-> m, period |-> period]]]
              ELSE IF sendDetails.period # period \/ sendDetails.data # s.data[m] THEN
                LET s1 == TaskStop(s, sendDetails.task)
                    s2 == [s1 EXCEPT !.periodicMsgs[id].data = s.data[m]]
                IN  IF PeriodDiffersFromList(sendDetails.period, period) THEN
                      LET s3 == SendPeriodic(s2, m, period)
                      IN  [s3 EXCEPT !.periodicMsgs[id].task = [msg |-> m, period |-> period],
                                     !.periodicMsgs[id].period = period]
                    ELSE TaskStart(s2, sendDetails.task)
              ELSE TaskStart(s, sendDetails.task)

\* mutant: a one-shot send is reported as sent before the frame is sent
sendCanMessageEmitFirst(s, m, freq) ==
    IF freq = 0 THEN BusSend(emitMessageSend(s, m), m) ELSE sendPeriodically(s, m, freq)

\* CanBusHandler.sendCanMessage(msg, frequency), msg the canBusMsg of m
sendCanMessage(s, m, freq) ==
    IF freq = 0 THEN
      LET s1 == BusSend(s, m)
      IN  IF s1.raised THEN s1 ELSE emitMessageSend(s1, m)
    ELSE sendPeriodically(s, m, freq)

\* CanBusHandler.stop(msg)
stop(s, m) ==
    LET sendDetails == s.periodicMsgs[DbcMessages[m].frame_id]
    IN  IF sendDetails.present THEN TaskStop(s, sendDetails.task) ELSE s

-----------------------------------------------------------------------------
(* TxMsgModel and the widgets of TxMessageLayout wired to it *)

\* mutant: the applied values change and canBusMsg.data is not encoded again
applyChangeStale(s, m) ==
    LET s1 == [s EXCEPT !.value[m] = s.sigValues[m]]
        s2 == IF s1.isSend[m] THEN sendCanMessage(s1, m, s1.frequency[m]) ELSE s1
    IN  [s2 EXCEPT !.applyEnabled[m] = FALSE]

\* TxMsgModel.applyChange; an EncodeError of getMsgData leaves the handler there
applyChange(s, m) ==
    LET s1 == [s EXCEPT !.value[m] = s.sigValues[m]]
        enc == getMsgData(m, s1.value[m])
    IN  IF ~enc.ok THEN Raised(s1)
        ELSE
          LET s2 == [s1 EXCEPT !.data[m] = enc.data]
              s3 == IF s2.isSend[m] THEN sendCanMessage(s2, m, s2.frequency[m]) ELSE s2
          IN  IF s3.raised THEN s3 ELSE [s3 EXCEPT !.applyEnabled[m] = FALSE]

\* TxMsgModel.discardChange
discardChange(s, m) ==
    [s EXCEPT !.sigValues[m] = s.value[m], !.applyEnabled[m] = FALSE]

\* the value setData asks for: int(value, 16) of a '0x' string, else
\* round(float(value)/scale) * scale
RequestedValue(sig, input) ==
    IF input.hex THEN input.h
    ELSE RoundHalfEven(input.h, InputDen * sig.scale) * sig.scale

\* the typed string is no number: float(value) raises ValueError
IsText(input) == "text" \in DOMAIN input

\* the test of setData: min <= requestedValue <= max, an absent bound infinite
Accepts(sig, input) == ~IsText(input) /\ InRange(sig, RequestedValue(sig, input))

\* mutant: the requested value is stored before it is tested
setDataStoreFirst(s, m, row, input) ==
    LET sig == DbcMessages[m].signals[row]
        s1 == [s EXCEPT !.sigValues[m][row] = RequestedValue(sig, input)]
    IN  IF Accepts(sig, input) THEN
          IF s1.isQueue[m] THEN [s1 EXCEPT !.applyEnabled[m] = TRUE]
          ELSE applyChange(s1, m)
        ELSE s1

\* mutant: an accepted edit is applied whether or not changes are queued
setDataAlwaysApply(s, m, row, input) ==
    LET sig == DbcMessages[m].signals[row]
    IN  IF IsText(input) THEN Raised(s)
        ELSE IF Accepts(sig, input) THEN
          applyChange([s EXCEPT !.sigValues[m][row] = RequestedValue(sig, input)], m)
        ELSE s

\* TxMsgModel.setData(index(row, 'Value'), value, EditRole)
setData(s, m, row, input) ==
    LET sig == DbcMessages[m].signals[row]
    IN  IF IsText(input) THEN Raised(s)
        ELSE IF Accepts(sig, input) THEN
          LET s1 == [s EXCEPT !.sigValues[m][row] = RequestedValue(sig, input)]
          IN  IF s1.isQueue[m] THEN [s1 EXCEPT !.applyEnabled[m] = TRUE]
              ELSE applyChange(s1, m)
        ELSE s

\* TxMsgModel.sendChanged(False)
sendChangedOff(s, m) == stop([s EXCEPT !.isSend[m] = FALSE], m)

\* TxMessageLayout.setSend(bool), reached by setSend.emit(False): unchecking a
\* checked box fires stateChanged -> emitSendChanged -> TxMsgModel.sendChanged(False)
setSend(s, m, checked) ==
    IF s.sendCheckBox[m] = checked THEN s
    ELSE LET s1 == [s EXCEPT !.sendCheckBox[m] = checked]
         IN  IF checked THEN s1 ELSE sendChangedOff(s1, m)

\* mutant: a one-shot send does not uncheck Send
sendChangedNoReset(s, m, on) ==
    IF on THEN sendCanMessage([s EXCEPT !.isSend[m] = TRUE], m, s.frequency[m])
    ELSE sendChangedOff(s, m)

\* TxMsgModel.sendChanged(isSend)
sendChanged(s, m, on) ==
    IF on THEN
      LET s1 == sendCanMessage([s EXCEPT !.isSend[m] = TRUE], m, s.frequency[m])
      IN  IF s1.raised THEN s1
          ELSE IF s.frequency[m] = 0 THEN setSend(s1, m, FALSE) ELSE s1
    ELSE sendChangedOff(s, m)

\* mutant: the pending changes are not applied when queueing ends
queueChangedNoApply(s, m, on) == [s EXCEPT !.isQueue[m] = on]

\* TxMsgModel.queueChanged(isQueue)
queueChanged(s, m, on) ==
    LET s1 == IF s.isQueue[m] THEN applyChange(s, m) ELSE s
    IN  IF s1.raised THEN s1 ELSE [s1 EXCEPT !.isQueue[m] = on]

\* mutant: a frequency of 0 does not uncheck Send
frequencyChangedNoReset(s, m, freq) ==
    LET s1 == [s EXCEPT !.frequency[m] = freq]
    IN  IF s1.isSend[m] THEN sendCanMessage(s1, m, freq) ELSE s1

\* TxMsgModel.frequencyChanged(frequency)
frequencyChanged(s, m, freq) ==
    LET s1 == [s EXCEPT !.frequency[m] = freq]
    IN  IF s1.isSend[m] THEN
          LET s2 == sendCanMessage(s1, m, freq)
          IN  IF s2.raised THEN s2
              ELSE IF freq = 0 THEN setSend(s2, m, FALSE) ELSE s2
        ELSE s1

-----------------------------------------------------------------------------
(* Start-up: TabManager.setupMessages, TxMsgModel.__init__, MessageLayout.initBaseUI *)

\* mutant: listen mode is not consulted
IsOutgoingIgnoringListenMode(m, logging, listenMode) == "VCU" \in DbcMessages[m].senders

\* mutant: a message with any declared sender is outgoing
IsOutgoingAnySender(m, logging, listenMode) ==
    IF logging THEN DbcMessages[m].senders # {}
    ELSE DbcMessages[m].senders # {} /\ ~listenMode

\* the role filter of setupMessages
IsOutgoing(m, logging, listenMode) ==
    IF logging THEN "VCU" \in DbcMessages[m].senders
    ELSE "VCU" \in DbcMessages[m].senders /\ ~listenMode

setupTxMsgs(catalog, logging, listenMode) ==
    LET Test(m) == IsOutgoing(m, logging, listenMode) IN SelectSeq(catalog, Test)

setupRxMsgs(catalog, logging, listenMode) ==
    LET Test(m) == ~IsOutgoing(m, logging, listenMode) IN SelectSeq(catalog, Test)

\* mutant: a signal whose DBC initial value is 0 gets no DbcSignal
InitialValuesNonZero(m) ==
    [row \in {r \in Rows(m) : DbcMessages[m].signals[r].initial # 0} |->
        DbcMessages[m].signals[row].initial]

\* the value setupMessages gives a signal: its DBC initial value
InitialValues(m) == [row \in Rows(m) |-> DbcMessages[m].signals[row].initial]

Abs(x) == IF x < 0 THEN 0 - x ELSE x

\* initBaseUI: no cycle time leaves frequency 0; else the FrequencyValues entry
\* nearest to 1/cycleTime (cycle time in ms), the first of the list on a tie
InitialFrequency(m) ==
    LET ct == DbcMessages[m].cycle_time
        Dist(x) == Abs(x * ct - 1000)
    IN  IF ct = 0 THEN 0
        ELSE CHOOSE x \in FrequencyValues :
               \A y \in FrequencyValues : Dist(x) < Dist(y) \/ (Dist(x) = Dist(y) /\ x <= y)

\* a pycan.Message as the transport delivers it
Frame(id, ext, dlc, d, ts) ==
    [arbitration_id |-> id, is_extended_id |-> ext, dlc |-> dlc, data |-> d, timestamp |-> ts]

NoFrame == Frame(0, FALSE, 0, 0, 0)

\* no string typed
NoInput == [hex |-> FALSE, h |-> 0]

\* the handler a step ran: its name, its message, and for setData the row, the
\* string typed and the value returned
Act(op, m, row, ok) ==
    [op |-> op, msg |-> m, row |-> row, ok |-> ok, typed |-> NoInput, raised |-> FALSE]

NoAct == Act("init", "", 0, TRUE)

\* the messages and tables CanTabManager.__init__ builds for a catalog
InitTables(catalog, logging, listenMode) ==

    LET tx == SeqToSet(setupTxMsgs(catalog, logging, listenMode))
        rx == SeqToSet(setupRxMsgs(catalog, logging, listenMode))
    IN  /\ txMsgs = setupTxMsgs(catalog, logging, listenMode)
        /\ rxMsgs = setupRxMsgs(catalog, logging, listenMode)
        /\ value = [m \in SeqToSet(catalog) |-> InitialValues(m)]
        /\ sigValues = [m \in tx |-> InitialValues(m)]
        /\ data = [m \in tx |-> getMsgData(m, InitialValues(m)).data]
        /\ isSend = [m \in tx |-> FALSE]
        /\ isQueue = [m \in tx |-> FALSE]
        /\ frequency = [m \in tx |-> InitialFrequency(m)]
        /\ sendCheckBox = [m \in tx |-> FALSE]
        /\ applyEnabled = [m \in tx |-> FALSE]
        /\ periodicMsgs = [id \in ArbIds |-> NoEntry]
        /\ running = {}
        /\ busLog = <<>>
        /\ lastAct = NoAct
        /\ graphValues = [m \in rx |-> [row \in Rows(m) |-> <<>>]]
        /\ timestamps = [m \in rx |-> <<>>]
        /\ lastReceived = [m \in rx |-> 0]
        /\ rxDelta = [m \in rx |-> 0 - 1]
        /\ rowsUpdated = [m \in rx |-> {}]
        /\ rxFrame = NoFrame
        /\ rxCount = 0
        /\ guiQueue = <<>>
        /\ updating = {}
        /\ dbcDb = catalog
        /\ isLogging = logging
        /\ isListenMode = listenMode
        /\ busFails = FALSE

\* can_send.py does not run
NoSimulator ==
    /\ signal_db = <<>>
    /\ signal_values = <<>>
    /\ sent = [msg |-> "", values |-> <<>>, ok |-> TRUE]
    /\ sentThisPass = {}

\* the one session is looked at by itself, whatever MainApp holds besides
NoWindow ==
    /\ openTabs = <<>>
    /\ sessions = <<>>
    /\ closed = FALSE

\* the state after CanTabManager.__init__ for a catalog
InitSession(catalog, logging, listenMode) ==
    InitTables(catalog, logging, listenMode) /\ isShutdown = FALSE /\ NoSimulator /\ NoWindow

\* no other testbench sends
NoPeer == [msg |-> "", value |-> <<>>, ok |-> FALSE, data |-> 0]

\* the state after CanTabManager.__init__ for a catalog on a live interface, alone
\* on the bus
InitFor(catalog, logging, listenMode) == InitSession(catalog, logging, listenMode) /\ peer = NoPeer

-----------------------------------------------------------------------------
(* The steps: what the operator does, and what a running task does *)

\* the operator types the string of the value 1
FaultInputs == [hex : {FALSE}, h : {InputDen}]

\* the tables of the TX tab, one per outgoing message, until the tab is deleted
TxSet == IF isShutdown THEN {} ELSE SeqToSet(txMsgs)

\* the strings the operator types: decimal h / InputDen ('0x' strings: EditInputs)
Inputs == [hex : {FALSE}, h : 0 .. MaxInput]

\* the fields a handler of the outgoing side leaves behind
TxWrite(s, act) ==
    /\ value' = s.value
    /\ sigValues' = s.sigValues
    /\ data' = s.data
    /\ isSend' = s.isSend
    /\ isQueue' = s.isQueue
    /\ frequency' = s.frequency
    /\ sendCheckBox' = s.sendCheckBox
    /\ applyEnabled' = s.applyEnabled
    /\ periodicMsgs' = s.periodicMsgs
    /\ running' = s.running
    /\ busLog' = s.busLog
    /\ lastAct' = [act EXCEPT !.raised = s.raised]
    /\ UNCHANGED <<txMsgs, rxMsgs, rxVars, rxFrame, rxCount, cfgVars, simVars, appVars>>

\* a handler that runs from start to end in one step
Commit(s, act) == TxWrite(s, act) /\ UNCHANGED <<thrVars, busVars>>

\* the operator edits the Value cell of a row
EditValue(m, row, input) ==
    Commit(setData(State, m, row, input),
           [Act("setData", m, row, Accepts(DbcMessages[m].signals[row], input))
               EXCEPT !.typed = input])

\* the operator presses Apply (the button is enabled)
PressApply(m) ==
    /\ applyEnabled[m]
    /\ Commit(applyChange(State, m), Act("applyChange", m, 0, TRUE))

\* TxMsgModel.discardChange is called
DiscardChange(m) ==
    Commit(discardChange(State, m), Act("discardChange", m, 0, TRUE))

\* the operator clicks the Send checkbox: stateChanged -> emitSendChanged
ToggleSend(m) ==
    LET checked == ~sendCheckBox[m]
    IN  Commit(sendChanged([State EXCEPT !.sendCheckBox[m] = checked], m, checked),
               Act(IF checked THEN "sendOn" ELSE "sendOff", m, 0, TRUE))

\* the operator clicks the Queue Changes checkbox: stateChanged -> emitQueueChanged
ToggleQueue(m) ==
    Commit(queueChanged(State, m, ~isQueue[m]), Act("queueChanged", m, 0, TRUE))

\* the operator picks another entry of the frequency combo: currentIndexChanged
SelectFrequency(m, freq) ==
    /\ freq # frequency[m]
    /\ Commit(frequencyChanged(State, m, freq), Act("frequencyChanged", m, 0, TRUE))

\* a started task fires: the callback emitMessageSend(msg), then the frame is sent
\* with the payload the Message object holds at that moment
\* or, the transport raising an error, the task stops itself: send_periodic is
\* given no error handler
Tick(task) ==
    /\ task \in running
    /\ LET s1 == emitMessageSend(State, task.msg)
       IN  IF busFails
           THEN Commit(TaskStop(s1, task), Act("tick", task.msg, 0, FALSE))
           ELSE Commit(Logged(s1, LogEntry("tick", task.msg, task.period, data[task.msg])),
                       Act("tick", task.msg, 0, TRUE))

Tasks == [msg : MsgNames, period : {PeriodOf(f) : f \in FrequencyValues \ {0}}]

\* the steps of the outgoing side, the operator typing strings of the set inputs
TxNext(inputs) ==
    \/ \E m \in TxSet : \E row \in Rows(m) : \E input \in inputs : EditValue(m, row, input)
    \/ \E m \in TxSet : PressApply(m)
    \/ \E m \in TxSet : DiscardChange(m)
    \/ \E m \in TxSet : ToggleSend(m)
    \/ \E m \in TxSet : ToggleQueue(m)
    \/ \E m \in TxSet : \E freq \in FrequencyValues : SelectFrequency(m, freq)
    \/ \E task \in Tasks : Tick(task)

Next == TxNext(Inputs)

\* two outgoing messages with the same numeric identifier, one standard, one extended
SchedCatalog == <<"A", "B">>

Init == InitFor(SchedCatalog, FALSE, FALSE)

Spec == Init /\ [][Next]_vars

\* one outgoing message of two signals, the first with a scale of 2 and bounds
\* of which the minimum is no multiple of the scale
EditCatalog == <<"Q">>

\* the strings the operator types: decimal h / InputDen, or '0x' followed by h
EditInputs ==
    [hex : {FALSE}, h : (0 - MinInput) .. MaxEditInput] \cup [hex : {TRUE}, h : 0 .. MaxHex]

InitEdit == InitFor(EditCatalog, FALSE, FALSE)

NextEdit == TxNext(EditInputs)

SpecEdit == InitEdit /\ [][NextEdit]_vars

\* catalog load.  M's signal has the bounds [1, 3] and no declared initial
\* value, for which setupMessages takes 0
LoadCatalogs == {<<"Q">>, <<"M">>}

\* TxMsgModel.__init__ encodes the initial values of its message, strictly: an
\* EncodeError leaves CanTabManager.__init__, and connectCan registers no session
ConstructionRaises(catalog) ==
    \E m \in SeqToSet(setupTxMsgs(catalog, FALSE, FALSE)) : ~getMsgData(m, InitialValues(m)).ok

\* the state after connectCan: the tables are there for the operator unless
\* their construction has raised
InitLoad ==
    \E catalog \in LoadCatalogs :
        /\ InitTables(catalog, FALSE, FALSE)
        /\ isShutdown = ConstructionRaises(catalog)
        /\ peer = NoPeer
        /\ NoSimulator
        /\ NoWindow

NextLoad == TxNext(Inputs)

SpecLoad == InitLoad /\ [][NextLoad]_vars

\* one outgoing message whose signal of two bits has a minimum and no maximum
WideCatalog == <<"U">>

\* the operator types the strings of the whole values 0 .. MaxWideInput
WideInputs == [hex : {FALSE}, h : {n * InputDen : n \in 0 .. MaxWideInput}]

InitWide == InitFor(WideCatalog, FALSE, FALSE)

NextWide == TxNext(WideInputs)

SpecWide == InitWide /\ [][NextWide]_vars

-----------------------------------------------------------------------------
(* The receive path: RxTab.handleRxCanMsg and RxMsgModel *)

RxState ==
    [value |-> value, graphValues |-> graphValues, timestamps |-> timestamps,
     lastReceived |-> lastReceived, rxDelta |-> rxDelta, rowsUpdated |-> rowsUpdated,
     ok |-> TRUE]

\* one signal out of a payload: its bits, then the NamedSignalValue of a raw
\* value that is a choice, else raw * scale + offset
DecodeSignal(sig, d) ==
    LET raw == (d \div Pow2(sig.start)) % Pow2(sig.length)
    IN  IF raw \in DOMAIN sig.choices THEN sig.choices[raw]
        ELSE raw * sig.scale + sig.offset

\* Message.decode(data): a value per signal, or a DecodeError when data is too short
Decode(m, frame) ==
    [ok |-> frame.dlc >= DbcMessages[m].length,
     values |-> [row \in Rows(m) |-> DecodeSignal(DbcMessages[m].signals[row], frame.data)]]

\* mutant: the decoded value is graphed and not stored
rxSetDataGraphOnly(r, m, row, v) ==
    LET graphValue == IF IsName(v) THEN ChoiceToNumber(DbcMessages[m].signals[row], v) ELSE v
    IN  [r EXCEPT !.graphValues[m][row] = Append(@, graphValue)]

\* mutant: a decoded value is graphed only when it differs from the one held
rxSetDataGraphChanges(r, m, row, v) ==
    LET graphValue == IF IsName(v) THEN ChoiceToNumber(DbcMessages[m].signals[row], v) ELSE v
    IN  IF v # r.value[m][row]
        THEN [r EXCEPT !.graphValues[m][row] = Append(@, graphValue),
                       !.value[m][row] = v, !.rowsUpdated[m] = @ \cup {row}]
        ELSE r

\* RxMsgModel.setData(index(row, 5), value, EditRole): a NamedSignalValue is
\* stored by its name and graphed by its number
rxSetData(r, m, row, v) ==
    LET graphValue == IF IsName(v) THEN ChoiceToNumber(DbcMessages[m].signals[row], v) ELSE v
        r1 == [r EXCEPT !.graphValues[m][row] = Append(@, graphValue)]
    IN  IF v # r.value[m][row]
        THEN [r1 EXCEPT !.value[m][row] = v, !.rowsUpdated[m] = @ \cup {row}]
        ELSE r1

\* the loop of updateSignalValues over the decoded signals, from row i on
RECURSIVE SetRowsFrom(_, _, _, _)
SetRowsFrom(r, m, vals, i) ==
    IF i > Len(DbcMessages[m].signals) THEN r
    ELSE SetRowsFrom(rxSetData(r, m, i, vals[i]), m, vals, i + 1)

\* the end of updateSignalValues, after the loop: lastReceived and rxDelta
lastReceivedAndDelta(r, m, frame) ==
    LET prevReceive == r.lastReceived[m]
        r1 == [r EXCEPT !.lastReceived[m] = frame.timestamp]
    IN  IF prevReceive # 0
        THEN [r1 EXCEPT !.rxDelta[m] = frame.timestamp - prevReceive]
        ELSE r1

\* mutant: the timestamp is appended before the payload is decoded
updateSignalValuesStampFirst(r, m, frame) ==
    LET dec == Decode(m, frame)
        r1 == [r EXCEPT !.timestamps[m] = Append(@, frame.timestamp)]
    IN  IF ~dec.ok THEN [r1 EXCEPT !.ok = FALSE]
        ELSE lastReceivedAndDelta(SetRowsFrom(r1, m, dec.values, 1), m, frame)

\* RxMsgModel.updateSignalValues(canMsg)
updateSignalValues(r, m, frame) ==
    LET dec == Decode(m, frame)
    IN  IF ~dec.ok THEN [r EXCEPT !.ok = FALSE]
        ELSE
          LET r1 == [r EXCEPT !.timestamps[m] = Append(@, frame.timestamp)]
              r2 == SetRowsFrom(r1, m, dec.values, 1)
          IN  lastReceivedAndDelta(r2, m, frame)

\* RxTab.msgTables after setupRxTab: frame_id -> the last incoming message with it,
\* "" when msgTables.get finds none
RxMsgTable(id) ==
    LET hits == {i \in DOMAIN rxMsgs : DbcMessages[rxMsgs[i]].frame_id = id}
    IN  IF hits = {} THEN ""
        ELSE rxMsgs[CHOOSE i \in hits : \A j \in hits : j <= i]

\* mutant: every frame is decoded into the first table, whatever its identifier
handleRxCanMsgAny(r, frame) == updateSignalValues(r, rxMsgs[1], frame)

\* RxTab.handleRxCanMsg(canMsg, channel), the channel being the handler's own
handleRxCanMsg(r, frame) ==
    LET rxMsgTable == RxMsgTable(frame.arbitration_id)
    IN  IF rxMsgTable # "" THEN updateSignalValues(r, rxMsgTable, frame) ELSE r

\* the fields a handler of the incoming side leaves behind
RxWrite(r, act) ==
    /\ value' = r.value
    /\ graphValues' = r.graphValues
    /\ timestamps' = r.timestamps
    /\ lastReceived' = r.lastReceived
    /\ rxDelta' = r.rxDelta
    /\ rowsUpdated' = r.rowsUpdated
    /\ lastAct' = act
    /\ UNCHANGED <<txMsgs, rxMsgs, txVars, cfgVars, simVars, appVars>>

\* a handler that runs from start to end in one step
RxCommit(r, act) == RxWrite(r, act) /\ UNCHANGED <<thrVars, busVars>>

\* the payloads of a frame of dlc bytes: none, or one byte
Payloads(dlc) == IF dlc = 0 THEN {0} ELSE 0 .. MaxPayload

\* the identifiers on the bus: those of the catalog and one that no message has
BusIds == ArbIds \cup {7}

\* the transport delivers a frame: CanListener.on_message_received emits
\* messageReceived, which runs handleRxCanMsg
ReceiveFrameUpTo(limit, id, ext, dlc, d) ==
    /\ rxCount < limit
    /\ LET frame == Frame(id, ext, dlc, d, rxCount + 1)
           r == handleRxCanMsg(RxState, frame)
       IN  /\ rxFrame' = frame
           /\ rxCount' = rxCount + 1
           /\ RxCommit(r, Act("rx", RxMsgTable(id), 0, r.ok))

ReceiveFrame(id, ext, dlc, d) == ReceiveFrameUpTo(MaxFrames, id, ext, dlc, d)

\* the 100 ms timer of RxMsgModel: updateTable, whose updateMsgLabel encodes the
\* current values first; an EncodeError leaves rowsUpdated as it is
UpdateTable(m) ==
    /\ UNCHANGED <<rxFrame, rxCount>>
    /\ LET enc == getMsgData(m, value[m])
       IN  RxCommit(IF enc.ok THEN [RxState EXCEPT !.rowsUpdated[m] = {}] ELSE RxState,
                    Act("updateTable", m, 0, enc.ok))

NextRx ==
    \/ \E id \in BusIds : \E ext \in BOOLEAN : \E dlc \in 0 .. 1 : \E d \in Payloads(dlc) :
          ReceiveFrame(id, ext, dlc, d)
    \/ \E m \in SeqToSet(rxMsgs) : UpdateTable(m)

\* one incoming message
RxCatalog == <<"R">>

InitRx == InitFor(RxCatalog, FALSE, FALSE)

SpecRx == InitRx /\ [][NextRx]_vars

\* LogTabManager.setupLogMessages for one frame of the log file that is_rx and
\* whose identifier rx_dict has: the timestamp, then the decoded values, a
\* NamedSignalValue by its number; a DecodeError leaves the loader
logFrame(r, m, frame) ==
    LET dec == Decode(m, frame)
        r1 == [r EXCEPT !.timestamps[m] = Append(@, frame.timestamp)]
        Number(row) == IF IsName(dec.values[row])
                       THEN ChoiceToNumber(DbcMessages[m].signals[row], dec.values[row])
                       ELSE dec.values[row]
    IN  IF ~dec.ok THEN [r1 EXCEPT !.ok = FALSE]
        ELSE [r1 EXCEPT !.graphValues[m] = [row \in Rows(m) |-> Append(@[row], Number(row))]]

\* the loop of setupLogMessages reads the next frame of the log file; when it
\* raises, LogTabManager.__init__ is left and connectCan registers no manager
LoadLogFrame(id, dlc, d) ==
    /\ isLogging
    /\ ~isShutdown
    /\ rxCount < MaxFrames
    /\ LET frame == Frame(id, FALSE, dlc, d, rxCount + 1)
           key == RxMsgTable(id)
           r == IF key # "" THEN logFrame(RxState, key, frame) ELSE RxState
       IN  /\ rxFrame' = frame
           /\ rxCount' = rxCount + 1
           /\ RxWrite(r, Act("log", key, 0, r.ok))
           /\ isShutdown' = ~r.ok
           /\ UNCHANGED <<thrVars, busFails, peer>>

\* the frames of a live session, or those of a log file
NextLog ==
    \/ \E id \in BusIds : \E ext \in BOOLEAN : \E dlc \in 0 .. 1 : \E d \in Payloads(dlc) :
          ~isLogging /\ ReceiveFrame(id, ext, dlc, d)
    \/ \E m \in SeqToSet(rxMsgs) : ~isLogging /\ UpdateTable(m)
    \/ \E id \in BusIds : \E dlc \in 0 .. 1 : \E d \in Payloads(dlc) : LoadLogFrame(id, dlc, d)

InitLog == \E logging \in BOOLEAN : InitFor(RxCatalog, logging, FALSE)

SpecLog == InitLog /\ [][NextLog]_vars

\* a long run of frames of one incoming message, all of the same payload
GraphCatalog == <<"N">>

NextGraph ==
    \/ ReceiveFrameUpTo(MaxGraphFrames, DbcMessages["N"].frame_id, FALSE, 1, 1)
    \/ UpdateTable("N")

InitGraph == InitFor(GraphCatalog, FALSE, FALSE)

SpecGraph == InitGraph /\ [][NextGraph]_vars

-----------------------------------------------------------------------------
(* The two threads that write value tables.  pycan.Notifier calls
   CanListener.on_message_received on its own thread, which emits
   messageReceived; the operator's handlers run on the GUI thread.  Here the
   loops of updateSignalValues and applyChange take one step per row, so that
   two handlers could be part-way through at the same time. *)

\* the thread that runs RxTab.handleRxCanMsg for an emission of messageReceived:
\* the signal is connected with the default connection type, under which the
\* slot runs on the thread the receiver lives in, the GUI thread; an emission
\* from another thread is posted to that thread's event queue
SlotThreadOfEmitter(emitter) == emitter

SlotThread(emitter) == "gui"

\* a handler on a thread, about to write the row of a message
Update(actor, thread, m, row, frame) ==
    [actor |-> actor, thread |-> thread, msg |-> m, row |-> row, frame |-> frame]

Idle(thread) == \A u \in updating : u.thread # thread

\* handleRxCanMsg up to the loop of updateSignalValues
BeginRx(thread, frame) ==
    LET m == RxMsgTable(frame.arbitration_id)
    IN  IF m = "" THEN
          /\ RxWrite(RxState, Act("rx", "", 0, TRUE))
          /\ updating' = updating
        ELSE IF ~Decode(m, frame).ok THEN
          /\ RxWrite(RxState, Act("rx", m, 0, FALSE))
          /\ updating' = updating
        ELSE
          /\ RxWrite([RxState EXCEPT !.timestamps[m] = Append(@, frame.timestamp)],
                     Act("rxBegin", m, 0, TRUE))
          /\ updating' = updating \cup {Update("rx", thread, m, 1, frame)}

\* the transport delivers a frame on the notifier thread: on_message_received
\* emits messageReceived
NotifierReceives(id, ext, d) ==
    /\ rxCount < MaxFrames
    /\ UNCHANGED busVars
    /\ Idle("notifier")
    /\ LET frame == Frame(id, ext, 1, d, rxCount + 1)
       IN  /\ rxFrame' = frame
           /\ rxCount' = rxCount + 1
           /\ IF SlotThread("notifier") = "gui"
              THEN /\ guiQueue' = Append(guiQueue, frame)
                   /\ updating' = updating
                   /\ RxWrite(RxState, Act("post", "", 0, TRUE))
              ELSE /\ guiQueue' = guiQueue
                   /\ BeginRx("notifier", frame)

\* the GUI thread, between two handlers, takes the next posted emission
GuiDispatch ==
    /\ Idle("gui")
    /\ guiQueue # <<>>
    /\ guiQueue' = Tail(guiQueue)
    /\ BeginRx("gui", Head(guiQueue))
    /\ UNCHANGED <<rxFrame, rxCount, busVars>>

\* the operator edits a Value cell: setData up to the loop of applyChange
BeginEdit(m, row, input) ==
    LET sig == DbcMessages[m].signals[row]
        s1 == [State EXCEPT !.sigValues[m][row] = RequestedValue(sig, input)]
        act(op) == [Act(op, m, row, Accepts(sig, input)) EXCEPT !.typed = input]
    IN  /\ Idle("gui")
        /\ UNCHANGED <<guiQueue, busVars>>
        /\ IF ~Accepts(sig, input) \/ isQueue[m]
           THEN /\ TxWrite(setData(State, m, row, input), act("setData"))
                /\ updating' = updating
           ELSE /\ TxWrite(s1, act("editBegin"))
                /\ updating' = updating \cup {Update("edit", "gui", m, 1, NoFrame)}

\* a handler that is part-way through takes its next step: one row of its loop,
\* or, the loop done, the rest of the handler
StepUpdate(u) ==
    LET m == u.msg
        more == u.row <= Len(DbcMessages[m].signals)
    IN  /\ u \in updating
        /\ updating' = (updating \ {u}) \cup (IF more THEN {[u EXCEPT !.row = @ + 1]} ELSE {})
        /\ UNCHANGED <<guiQueue, busVars>>
        /\ IF u.actor = "rx"
           THEN /\ UNCHANGED <<rxFrame, rxCount>>
                /\ IF more
                   THEN RxWrite(rxSetData(RxState, m, u.row, Decode(m, u.frame).values[u.row]),
                                Act("rxRow", m, u.row, TRUE))
                   ELSE RxWrite(lastReceivedAndDelta(RxState, m, u.frame),
                                Act("rxEnd", m, 0, TRUE))
           ELSE IF more
                THEN TxWrite([State EXCEPT !.value[m][u.row] = sigValues[m][u.row]],
                             Act("applyRow", m, u.row, TRUE))
                \* every row is copied: applyChange of this state is its lines after the loop
                ELSE TxWrite(applyChange(State, m), Act("applyEnd", m, 0, TRUE))

\* the identifiers on the bus: those of the incoming messages and one that no
\* message has
RxBusIds == {DbcMessages[m].frame_id : m \in SeqToSet(rxMsgs)} \cup {7}

NextThreads ==
    \/ \E id \in RxBusIds : \E d \in 0 .. MaxThreadPayload : NotifierReceives(id, FALSE, d)
    \/ GuiDispatch
    \/ \E m \in TxSet : \E row \in Rows(m) : \E input \in Inputs : BeginEdit(m, row, input)
    \/ \E u \in updating : StepUpdate(u)

\* one outgoing and one incoming message
ThreadCatalog == <<"Q", "R">>

InitThreads == InitFor(ThreadCatalog, FALSE, FALSE)

SpecThreads == InitThreads /\ [][NextThreads]_vars

-----------------------------------------------------------------------------
(* Sessions over several catalogs and configurations: which messages
   setupMessages makes outgoing and which incoming, and what a session can do *)

\* catalogs with a message of sender VCU (Q), of another sender (R) and of no
\* declared sender (N: senders None or empty, which setupMessages treats alike)
RoleCatalogs == {<<"Q", "N">>, <<"N", "R">>, <<"Q">>}

\* the operator types the string of the value 1, or that of MaxInput / InputDen
RoleInputs == [hex : {FALSE}, h : {InputDen, MaxInput}]

\* a log file has no bus: LogTabManager shows the messages and sends nothing
NextRoles ==
    \/ ~isLogging /\ TxNext(RoleInputs)
    \/ \E id \in RxBusIds : \E d \in 0 .. MaxThreadPayload :
          ~isLogging /\ ReceiveFrame(id, FALSE, 1, d)
    \/ \E m \in SeqToSet(rxMsgs) : ~isLogging /\ UpdateTable(m)

InitRoles ==
    \E catalog \in RoleCatalogs : \E logging \in BOOLEAN : \E listenMode \in BOOLEAN :
        InitFor(catalog, logging, listenMode)

SpecRoles == InitRoles /\ [][NextRoles]_vars

-----------------------------------------------------------------------------
(* The end of a session: MainApp.closeCan -> CanTabManager.shutdown *)

\* bus.shutdown(): the bus stops every periodic task it has started
RECURSIVE StopAll(_, _)
StopAll(s, tasks) ==
    IF tasks = {} THEN s
    ELSE LET t == CHOOSE t \in tasks : TRUE
         IN  StopAll(TaskStop(s, t), tasks \ {t})

\* mutant: the notifier is stopped and the bus is left as it is
shutdownNotifierOnly(s) == s

\* CanBusHandler.shutdown
shutdown(s) == StopAll(s, s.running)

\* the operator closes the tab of the session, or the window
CloseCan ==
    /\ ~isShutdown
    /\ isShutdown' = TRUE
    /\ TxWrite(shutdown(State), Act("shutdown", "", 0, TRUE))
    /\ UNCHANGED <<thrVars, busFails, peer>>

\* two outgoing messages of different identifiers
CloseCatalog == <<"B", "Q">>

NextClose ==
    \/ TxNext(FaultInputs)
    \/ CloseCan

InitClose == InitFor(CloseCatalog, FALSE, FALSE)

SpecClose == InitClose /\ [][NextClose]_vars

-----------------------------------------------------------------------------
(* Two testbenches on one bus: the peer has the message outgoing and encodes
   the values its operator applied (getMsgData); this session, in listen mode,
   has the same message incoming and decodes the frames (updateSignalValues) *)

\* the vectors of whole values, each within the minimum and maximum of its signal
LogicalValues(m) ==
    {vals \in [Rows(m) -> 0 .. MaxLogical] :
        \A row \in Rows(m) : InRange(DbcMessages[m].signals[row], vals[row])}

\* the peer's operator applies values: TxMsgModel.applyChange encodes them
PeerApplies(vals) ==
    /\ peer' = [msg |-> peer.msg, value |-> vals,
                ok |-> getMsgData(peer.msg, vals).ok, data |-> getMsgData(peer.msg, vals).data]
    /\ RxWrite(RxState, Act("peerApply", peer.msg, 0, getMsgData(peer.msg, vals).ok))
    /\ UNCHANGED <<rxFrame, rxCount, thrVars, busFails, isShutdown>>

\* the peer sends its frame, and this session receives it
PeerSends ==
    /\ peer.ok
    /\ ReceiveFrame(DbcMessages[peer.msg].frame_id, DbcMessages[peer.msg].is_extended_frame,
                    DbcMessages[peer.msg].length, peer.data)

NextCodec ==
    \/ \E vals \in LogicalValues(peer.msg) : PeerApplies(vals)
    \/ PeerSends

\* the layouts: two signals, one of scale 2 (Q); one signal of scale 1 (A)
CodecMessages == {"Q", "A"}

\* the peer after TxMsgModel.__init__: the initial values of the DBC, encoded
PeerOf(m) ==
    [msg |-> m, value |-> InitialValues(m),
     ok |-> getMsgData(m, InitialValues(m)).ok, data |-> getMsgData(m, InitialValues(m)).data]

InitCodec ==
    \E m \in CodecMessages :
        /\ InitSession(<<m>>, FALSE, TRUE)
        /\ peer = PeerOf(m)

SpecCodec == InitCodec /\ [][NextCodec]_vars

-----------------------------------------------------------------------------
(* Enumerated signals: a message whose signal has the choices {0: OFF, 1: ON},
   outgoing in normal mode, where the operator types, and incoming in listen
   mode, where a peer sends it *)

\* initial value OFF (E) and ON (F)
EnumMessages == {"E", "F"}

\* the operator types "0", "1", or the name of a choice
EnumInputs == [hex : {FALSE}, h : {0, InputDen}] \cup [text : {OFF, ON}]

PeerValues == IF peer.msg = "" THEN {} ELSE LogicalValues(peer.msg)

NextEnum ==
    \/ TxNext(EnumInputs)
    \/ \E vals \in PeerValues : PeerApplies(vals)
    \/ PeerSends

InitEnum ==
    \E m \in EnumMessages : \E listenMode \in BOOLEAN :
        /\ InitSession(<<m>>, FALSE, listenMode)
        /\ peer = IF listenMode THEN PeerOf(m) ELSE NoPeer

SpecEnum == InitEnum /\ [][NextEnum]_vars

-----------------------------------------------------------------------------
(* A transport whose sends fail for a while *)

\* the transport starts to fail, or recovers
BusFault ==
    /\ busFails' = ~busFails
    /\ TxWrite(State, Act("busFault", "", 0, TRUE))
    /\ UNCHANGED <<thrVars, isShutdown, peer>>

NextFault ==
    \/ TxNext(FaultInputs)
    \/ BusFault

InitFault == InitFor(SchedCatalog, FALSE, FALSE)

SpecFault == InitFault /\ [][NextFault]_vars

-----------------------------------------------------------------------------
(* The bus simulator, can_send.py: one msg_sender for every message of its
   database that the VCU does not send, each called once in every pass of the
   main loop.  The testbench is not part of it. *)

benchVars == <<txMsgs, rxMsgs, value, txVars, rxVars, lastAct, rxFrame, rxCount, thrVars,
               cfgVars, busVars>>

\* no session of the testbench
NoBench == InitTables(<< >>, FALSE, FALSE) /\ isShutdown = FALSE /\ peer = NoPeer

\* a signal with the choices {0: OFF, 1: ON} and no minimum or maximum
ChoiceSig(start) == [EnumSig(start, OFF) EXCEPT !.hasMin = FALSE, !.hasMax = FALSE]

\* the database the simulator loads: R of the testbench's catalog; A, which the
\* VCU sends; T, whose signal has the scale -1 and the bounds [-3, 0]; W, with a
\* signal of choices and no bounds and a signal of neither; V, whose signal has
\* the scale 2 and the bounds [1, 4], so that its raw minimum is round(0.5) = 0
SimDb ==
    [R |-> DbcMessages.R,
     A |-> DbcMessages.A,
     T |-> [frame_id |-> 10, is_extended_frame |-> FALSE, length |-> 1, senders |-> {"BMS"}, cycle_time |-> 0,
            signals |-> << Sig(0, 2, 0 - 1, TRUE, 0 - 3, TRUE, 0, 0) >>],
     W |-> [frame_id |-> 11, is_extended_frame |-> FALSE, length |-> 1, senders |-> {"BMS"}, cycle_time |-> 0,
            signals |-> << ChoiceSig(0), Sig(1, 1, 1, FALSE, 0, FALSE, 0, 0) >>],
     V |-> [frame_id |-> 12, is_extended_frame |-> FALSE, length |-> 1, senders |-> {"BMS"}, cycle_time |-> 0,
            signals |-> << Sig(0, 2, 2, TRUE, 1, TRUE, 4, 2) >>]]

\* __main__: a sender for every message without VCU among its senders
msg_senders == {m \in DOMAIN SimDb : "VCU" \notin SimDb[m].senders}

Smaller(a, b) == IF a < b THEN a ELSE b

\* msg_sender.__init__, signal_db[signal.name]: the raw minimum and the raw
\* maximum, the latter no more than the bits hold (unsigned signals), of a signal
\* with both bounds; the choice keys of another signal with choices; else [0, 1]
SignalDb(sig) ==
    IF sig.hasMin /\ sig.hasMax
    THEN [isDict |-> TRUE, minimum |-> ScaledToRaw(sig, sig.minimum),
          maximum |-> Smaller(ScaledToRaw(sig, sig.maximum), Pow2(sig.length) - 1), keys |-> {}]
    ELSE IF sig.choices # << >>
    THEN [isDict |-> FALSE, minimum |-> 0, maximum |-> 0, keys |-> DOMAIN sig.choices]
    ELSE [isDict |-> TRUE, minimum |-> 0, maximum |-> 1, keys |-> {}]

\* msg_sender.__init__, signal_values[signal.name]: the maximum, a random choice
\* key, or 0
FirstValues(sig) ==
    IF sig.hasMin /\ sig.hasMax THEN {SignalDb(sig).maximum}
    ELSE IF sig.choices # << >> THEN SignalDb(sig).keys
    ELSE {0}

\* send_message, the loop after the send: one less, back to the maximum from
\* below the minimum; or a random choice key
NextValues(db, v) ==
    IF db.isDict
    THEN {IF v - 1 < db.minimum THEN db.maximum ELSE v - 1}
    ELSE db.keys

\* the mappings that give every signal one of the values it may take
Mappings(m, choice) ==
    {f \in [DOMAIN SimDb[m].signals -> 0 .. 3] : \A row \in DOMAIN SimDb[m].signals : f[row] \in choice[row]}

\* the values msg_sender.__init__ may give the signals of a message
FirstMappings(m) ==
    Mappings(m, [row \in DOMAIN SimDb[m].signals |-> FirstValues(SimDb[m].signals[row])])

RECURSIVE PackRaw(_, _, _)
PackRaw(sigs, vals, i) ==
    IF i > Len(sigs) THEN 0
    ELSE vals[i] * Pow2(sigs[i].start) + PackRaw(sigs, vals, i + 1)

\* msg.encode(signal_values, scaling=False): strict, the raw values as they are
EncodeRaw(m, vals) ==
    LET sigs == SimDb[m].signals
        ok == \A i \in DOMAIN sigs :
                 FitsBits(sigs[i], vals[i]) /\ InRange(sigs[i], vals[i] * sigs[i].scale + sigs[i].offset)
    IN  [ok |-> ok, data |-> IF ok THEN PackRaw(sigs, vals, 1) ELSE 0]

\* the main loop calls send_message of a sender it has not called in this pass;
\* an error of encode ends the script
send_message(m) ==
    /\ sent.ok
    /\ m \in msg_senders \ sentThisPass
    /\ LET enc == EncodeRaw(m, signal_values[m])
           next == [row \in DOMAIN SimDb[m].signals |->
                       NextValues(signal_db[m][row], signal_values[m][row])]
       IN  /\ sent' = [msg |-> m, values |-> signal_values[m], ok |-> enc.ok]
           /\ IF enc.ok
              THEN /\ \E f \in Mappings(m, next) : signal_values' = [signal_values EXCEPT ![m] = f]
                   /\ sentThisPass' = IF sentThisPass \cup {m} = msg_senders THEN {}
                                      ELSE sentThisPass \cup {m}
              ELSE UNCHANGED <<signal_values, sentThisPass>>
    /\ UNCHANGED <<signal_db, benchVars, appVars>>

NextSim == \E m \in msg_senders : send_message(m)

InitSim ==
    /\ NoBench
    /\ NoWindow
    /\ signal_db = [m \in msg_senders |-> [row \in DOMAIN SimDb[m].signals |-> SignalDb(SimDb[m].signals[row])]]
    /\ signal_values \in [msg_senders -> UNION {FirstMappings(m) : m \in msg_senders}]
    /\ \A m \in msg_senders : signal_values[m] \in FirstMappings(m)
    /\ sent = [msg |-> "", values |-> << >>, ok |-> TRUE]
    /\ sentThisPass = {}

SpecSim == InitSim /\ [][NextSim]_vars

-----------------------------------------------------------------------------
(* The window, MainApp: connectCan opens a bus for the configured channel and
   builds a CanTabManager on it, or builds a LogTabManager for a log file; a
   closed tab and the closing window shut managers down.  What goes on within
   a session is not part of it. *)

Channels == {"can0", "can1"}

\* the key of openTabs for the log file of the configuration
LogFile == "log"

\* buses and log files opened in one run of the window
MaxSessions == 3

App == [openTabs |-> openTabs, sessions |-> sessions]

\* TabManager.shutdown: the tabs are deleted; CanTabManager.shutdown, after it,
\* CanBusHandler.shutdown: the notifier is stopped and the bus shut down
managerShutdown(sess) ==
    [sess EXCEPT !.tabs = FALSE, !.shutdowns = @ + 1,
                 !.notifier = FALSE, !.busOpen = FALSE]

\* MainApp.closeCan(id): openTabs.pop(id, None), and shutdown of what it gave
closeCan(app, id) ==
    IF id \in DOMAIN app.openTabs
    THEN [openTabs |-> [k \in DOMAIN app.openTabs \ {id} |-> app.openTabs[k]],
          sessions |-> [app.sessions EXCEPT ![app.openTabs[id]] = managerShutdown(@)]]
    ELSE app

\* self.openTabs[id] = canManager
Registered(app, id, sess) ==
    [openTabs |-> [k \in DOMAIN app.openTabs \cup {id} |->
                      IF k = id THEN Len(app.sessions) + 1 ELSE app.openTabs[k]],
     sessions |-> Append(app.sessions, sess)]

\* MainApp.connectCan on a live interface: the session of the channel, if any,
\* is closed, the bus is opened, and the CanTabManager is built and registered;
\* when TxTab raises in initTabs the bus handler with its notifier is there and
\* connectCan returns after the error dialog
connectCan(app, channel, catalog, busOk) ==
    LET a1 == closeCan(app, channel)
        sess == [channel |-> channel, busOpen |-> TRUE, notifier |-> TRUE,
                 tabs |-> ~ConstructionRaises(catalog), shutdowns |-> 0]
    IN  IF channel = "" THEN app
        ELSE IF ~busOk THEN a1
        ELSE IF ConstructionRaises(catalog) THEN [a1 EXCEPT !.sessions = Append(@, sess)]
        ELSE Registered(a1, channel, sess)

\* MainApp.connectCan with the interface 'Logging': a LogTabManager, which has
\* no bus, is registered under the name of the log file
connectLog(app) ==
    Registered(app, LogFile, [channel |-> LogFile, busOpen |-> FALSE, notifier |-> FALSE,
                              tabs |-> TRUE, shutdowns |-> 0])

AppWrite(app) ==
    /\ openTabs' = app.openTabs
    /\ sessions' = app.sessions
    /\ UNCHANGED <<benchVars, simVars>>

\* the operator presses Connect
ConnectCan(channel, catalog, busOk) ==
    /\ ~closed
    /\ Len(sessions) < MaxSessions
    /\ AppWrite(connectCan(App, channel, catalog, busOk))
    /\ closed' = closed

ConnectLog ==
    /\ ~closed
    /\ Len(sessions) < MaxSessions
    /\ AppWrite(connectLog(App))
    /\ closed' = closed

\* MainApp.removeTab(index): the operator closes a tab that is shown; its
\* WhatsThis is the channel, or the log file, of the manager that added it
RemoveTab(i) ==
    /\ ~closed
    /\ sessions[i].tabs
    /\ AppWrite(closeCan(App, sessions[i].channel))
    /\ closed' = closed

RECURSIVE ShutdownAll(_, _)
ShutdownAll(sess, ids) ==
    IF ids = {} THEN sess
    ELSE LET i == CHOOSE i \in ids : TRUE
         IN  ShutdownAll([sess EXCEPT ![i] = managerShutdown(@)], ids \ {i})

\* MainApp.closeEvent: every manager of openTabs is shut down, none is removed
CloseEvent ==
    /\ ~closed
    /\ closed' = TRUE
    /\ AppWrite([App EXCEPT !.sessions = ShutdownAll(@, {openTabs[k] : k \in DOMAIN openTabs})])

NextApp ==
    \/ \E channel \in Channels \cup {""} : \E catalog \in LoadCatalogs : \E busOk \in BOOLEAN :
          ConnectCan(channel, catalog, busOk)
    \/ ConnectLog
    \/ \E i \in DOMAIN sessions : RemoveTab(i)
    \/ CloseEvent

InitApp == NoBench /\ NoSimulator /\ NoWindow

SpecApp == InitApp /\ [][NextApp]_vars

-----------------------------------------------------------------------------
(* Reading the state *)

\* the tasks of the bus that are running for one arbitration id
RunningFor(id) == {t \in running : DbcMessages[t.msg].frame_id = id}

\* the task of message m at the period of its frequency is running
RunsPeriodically(m) ==
    /\ isSend[m]
    /\ frequency[m] # 0
    /\ \E t \in running : t.msg = m /\ t.period * frequency[m] = 1000

LogOps == {busLog[i].op : i \in DOMAIN busLog}

\* TxMsgModel.updateSentTime: the models whose lastSent the messageSent signals
\* of the last step have set
SentTimeUpdated ==
    {m \in TxSet : \E i \in DOMAIN busLog :
        /\ busLog[i].op = "messageSent"
        /\ DbcMessages[busLog[i].msg].frame_id = DbcMessages[m].frame_id}

\* the frames the last step put on the wire
Transmitted == {i \in DOMAIN busLog : busLog[i].op \in {"send", "tick"}}

-----------------------------------------------------------------------------
(* C1: a payload-only change of a message that is running periodically leaves
   its task alone: the step neither stops, nor creates, nor restarts a task,
   and transmits nothing itself. *)
C1_PayloadUpdateKeepsTask ==
    [][\A m \in TxSet :
          (/\ RunsPeriodically(m)
           /\ lastAct'.msg = m
           /\ lastAct'.op \in {"setData", "applyChange", "queueChanged"}
           /\ data'[m] # data[m]
           /\ frequency'[m] = frequency[m])
          => (busLog' = <<>> /\ running' = running)]_vars

(* C2: every frame a periodic task transmits for a message carries the encoding
   of the values most recently applied to that message, never an earlier payload. *)
C2_TickSendsAppliedPayload ==
    \A i \in DOMAIN busLog :
        busLog[i].op = "tick" =>
            busLog[i].data = Encode(busLog[i].msg, value[busLog[i].msg]).data

\* a tick of a message whose payload was updated after start-up
C2_Witness ==
    /\ lastAct.op = "tick"
    /\ value[lastAct.msg] # InitialValues(lastAct.msg)
    /\ \E i \in DOMAIN busLog : busLog[i].op = "tick" /\ busLog[i].data # 0

(* C3: while the Send flag of a message is off, no periodic tick is transmitted
   for it (ticks are atomic in the model, so none is in flight). *)
C3_NoTickWhileSendOff ==
    \A i \in DOMAIN busLog :
        busLog[i].op = "tick" => isSend[busLog[i].msg]

(* C4: at most one periodic task is running for an arbitration id of the bus
   handler, in every reachable state. *)
C4_OneRunningTaskPerId ==
    \A id \in ArbIds : Cardinality(RunningFor(id)) <= 1

\* a period change has replaced a task, and one task is running
C4_Witness ==
    /\ lastAct.op = "frequencyChanged"
    /\ "send_periodic" \in LogOps
    /\ \E id \in ArbIds : Cardinality(RunningFor(id)) = 1

(* C5: turning Send on at frequency 0 transmits the frame exactly once, creates
   and starts no task, and leaves the Send flag and its checkbox off; while the
   flag is off an edit or an apply does nothing on the bus. *)
C5_OneShot ==
    /\ (lastAct.op = "sendOn" /\ frequency[lastAct.msg] = 0) =>
          /\ Cardinality(Transmitted) = 1
          /\ busLog[1] = LogEntry("send", lastAct.msg, 0, data[lastAct.msg])
          /\ LogOps \cap {"send_periodic", "start"} = {}
          /\ ~isSend[lastAct.msg]
          /\ ~sendCheckBox[lastAct.msg]
    /\ (lastAct.op \in {"setData", "applyChange"} /\ ~isSend[lastAct.msg]) => busLog = <<>>

C5_Witness ==
    /\ lastAct.op = "sendOn"
    /\ frequency[lastAct.msg] = 0
    /\ data[lastAct.msg] # 0
    /\ Cardinality(Transmitted) = 1

(* C6: changing the frequency of a message that is running periodically to
   another non-zero value stops the old task first, then starts a new one, and
   leaves exactly one task running for the identifier, at period 1/frequency,
   holding the message with its current payload. *)
C6_PeriodChange ==
    [][\A m \in TxSet :
          (/\ RunsPeriodically(m)
           /\ lastAct'.op = "frequencyChanged"
           /\ lastAct'.msg = m
           /\ frequency'[m] # 0)
          => /\ Len(busLog') = 2
             /\ busLog'[1].op = "stop"
             /\ busLog'[1].msg = m
             /\ busLog'[1].period * frequency[m] = 1000
             /\ busLog'[2].op = "send_periodic"
             /\ busLog'[2].msg = m
             /\ busLog'[2].data = data'[m]
             /\ data'[m] = data[m]
             /\ \E t \in running' :
                   /\ RunningFor(DbcMessages[m].frame_id)' = {t}
                   /\ t.msg = m
                   /\ t.period * frequency'[m] = 1000]_vars

C6_Witness ==
    /\ lastAct.op = "frequencyChanged"
    /\ frequency[lastAct.msg] # 0
    /\ Len(busLog) = 2
    /\ busLog[1].op = "stop"
    /\ busLog[2].op = "send_periodic"
    /\ data[lastAct.msg] # 0

(* C7: setting the frequency to 0 of a message that is running periodically
   sends one frame and disables the message: after the handler its Send flag is
   off and no task is running for its identifier, so no tick can follow. *)
C7_FrequencyZeroDisables ==
    [][\A m \in TxSet :
          (/\ RunsPeriodically(m)
           /\ lastAct'.op = "frequencyChanged"
           /\ lastAct'.msg = m
           /\ frequency'[m] = 0)
          => /\ ~isSend'[m]
             /\ ~sendCheckBox'[m]
             /\ RunningFor(DbcMessages[m].frame_id)' = {}
             /\ \A t \in running' : t.msg # m]_vars

\* the frequency of a running message was set to 0: one frame, then the stop
C7_Witness ==
    /\ lastAct.op = "frequencyChanged"
    /\ frequency[lastAct.msg] = 0
    /\ Len(busLog) = 3
    /\ busLog[1].op = "send"
    /\ busLog[3].op = "stop"
    /\ busLog[3].msg = lastAct.msg


RxSet == SeqToSet(rxMsgs)

\* the last step delivered a frame
Delivered == lastAct.op = "rx"

(* C8: delivering a frame whose identifier no incoming message of the catalog
   has raises no error and changes no signal value, graph sample, timestamp,
   lastReceived, rxDelta or updated-row set. *)
C8_UnknownIdMutatesNothing ==
    [][(/\ Delivered'
        /\ rxCount' # rxCount
        /\ \A m \in RxSet : DbcMessages[m].frame_id # rxFrame'.arbitration_id)
       => (lastAct'.ok /\ UNCHANGED <<value, rxVars>>)]_vars

\* an unknown frame arrives after a known one has filled the tables
C8_Witness ==
    /\ Delivered
    /\ rxFrame.arbitration_id = 7
    /\ \E m \in RxSet : timestamps[m] # <<>> /\ rowsUpdated[m] # {}

(* C9: a frame is matched to a message by identifier and extended flag: a frame
   whose identifier is a message's but whose extended flag is not that message's
   changes nothing. *)
C9_MatchesIdAndExtendedFlag ==
    [][(/\ Delivered'
        /\ rxCount' # rxCount
        /\ \A m \in RxSet :
              ~(/\ DbcMessages[m].frame_id = rxFrame'.arbitration_id
                /\ DbcMessages[m].is_extended_frame = rxFrame'.is_extended_id))
       => UNCHANGED <<value, rxVars>>]_vars

\* the value the operator typed lies outside [minimum, maximum]
TypedOutside(sig, input) ==
    LET den == IF input.hex THEN 1 ELSE InputDen
    IN  \/ sig.hasMin /\ input.h < sig.minimum * den
        \/ sig.hasMax /\ input.h > sig.maximum * den

\* the multiple of the signal's scale nearest to the typed value, the even
\* multiple on a tie; a '0x' value as typed
NearestMultiple(sig, input) ==
    IF input.hex THEN input.h
    ELSE LET below == input.h \div (sig.scale * InputDen)
             IsNearest(k) ==
                 LET dist == Abs(input.h - k * sig.scale * InputDen)
                 IN  \/ 2 * dist < sig.scale * InputDen
                     \/ 2 * dist = sig.scale * InputDen /\ k % 2 = 0
         IN  sig.scale * (CHOOSE k \in {below, below + 1} : IsNearest(k))

\* the last step was an edit of a Value cell
Edited == lastAct.op = "setData"

EditedSig == DbcMessages[lastAct.msg].signals[lastAct.row]

\* the step rejected the edit and touched nothing
EditRejected ==
    /\ ~lastAct'.ok
    /\ busLog' = <<>>
    /\ UNCHANGED <<value, sigValues, data, isSend, periodicMsgs, running>>

(* C10 as claimed: an edit whose typed value lies outside [minimum, maximum] is
   rejected: setData returns False, the pending and applied values and the
   payload are unchanged, nothing is sent and no task is touched. *)
C10_TypedOutsideRejected ==
    [][(Edited' /\ TypedOutside(EditedSig, lastAct.typed)')
       => EditRejected]_vars

(* C10 as amended: an edit is rejected, with nothing changed and nothing sent,
   when the multiple of the scale nearest to the typed value (the even multiple
   on a tie) lies outside [minimum, maximum]. *)
C10_RoundedOutsideRejected ==
    [][(Edited' /\ ~InRange(EditedSig, NearestMultiple(EditedSig, lastAct.typed))')
       => EditRejected]_vars

\* an edit was rejected while the message was being sent with queued changes
C10_Witness ==
    /\ lastAct.op = "setData"
    /\ ~lastAct.ok
    /\ isSend[lastAct.msg]
    /\ sigValues[lastAct.msg] # value[lastAct.msg]

\* the operator typed the decimal string of the whole number n
TypedWhole(n) == ~lastAct.typed.hex /\ lastAct.typed.h = n * InputDen

\* the step accepted the edit of the whole number n, and applied and encoded it
\* unless changes are queued
EditAccepted(n) ==
    /\ lastAct'.ok
    /\ sigValues'[lastAct'.msg][lastAct'.row] = n
    /\ ~isQueue[lastAct'.msg] =>
          /\ value'[lastAct'.msg] = sigValues'[lastAct'.msg]
          /\ Encode(lastAct'.msg, value'[lastAct'.msg]).ok
          /\ data'[lastAct'.msg] = Encode(lastAct'.msg, value'[lastAct'.msg]).data

(* C11: for a signal with minimum and maximum, an edit of exactly the minimum
   or exactly the maximum is accepted and encoded, and an edit of the maximum
   plus one is rejected with nothing applied, whatever the scale. *)
C11_BoundaryValues ==
    [][(Edited' /\ EditedSig'.hasMin /\ EditedSig'.hasMax)
       => /\ TypedWhole(EditedSig.minimum)' => EditAccepted(EditedSig'.minimum)
          /\ TypedWhole(EditedSig.maximum)' => EditAccepted(EditedSig'.maximum)
          /\ TypedWhole(EditedSig.maximum + 1)' => EditRejected]_vars


(* C12: at any moment at most one handler is part-way through writing a value
   table, and it runs on the GUI thread: a decoded frame and an operator edit
   or apply never interleave, on the same message or on different ones. *)
C12_OneWriterAtATime ==
    /\ Cardinality(updating) <= 1
    /\ \A u \in updating : u.thread = "gui"

\* a frame arrived while an edit was part-way through its rows, and waits
C12_Witness ==
    /\ guiQueue # <<>>
    /\ RxMsgTable(guiQueue[1].arbitration_id) # ""
    /\ \E u \in updating : u.actor = "edit" /\ u.row = 2


(* C13: every message of the catalog is in exactly one of txMsgs and rxMsgs;
   with listen mode off it is outgoing exactly when its senders include VCU;
   a message with no declared sender is incoming. *)
C13_RoleFilter ==
    \A m \in SeqToSet(dbcDb) :
        /\ (m \in SeqToSet(txMsgs)) # (m \in SeqToSet(rxMsgs))
        /\ ~isListenMode => (m \in SeqToSet(txMsgs) <=> "VCU" \in DbcMessages[m].senders)
        /\ DbcMessages[m].senders = {} => m \in SeqToSet(rxMsgs)

\* listen mode off: a message of sender VCU is being sent beside one without senders
C13_Witness ==
    /\ ~isListenMode
    /\ \E m \in SeqToSet(txMsgs) : isSend[m] /\ running # {}
    /\ \E m \in SeqToSet(rxMsgs) : DbcMessages[m].senders = {}

(* C14: with listen mode on and a live interface every message of the catalog
   is incoming and txMsgs is empty: no step of the session transmits a frame
   or creates, starts or stops a periodic task. *)
C14_ListenModeSendsNothing ==
    (isListenMode /\ ~isLogging) =>
        /\ txMsgs = <<>>
        /\ SeqToSet(rxMsgs) = SeqToSet(dbcDb)
        /\ busLog = <<>>
        /\ running = {}
        /\ \A id \in ArbIds : ~periodicMsgs[id].present

\* listen mode on: a frame of a message of sender VCU is received and decoded
C14_Witness ==
    /\ isListenMode
    /\ ~isLogging
    /\ Delivered
    /\ lastAct.msg # ""
    /\ "VCU" \in DbcMessages[lastAct.msg].senders
    /\ value[lastAct.msg] # InitialValues(lastAct.msg)


\* the last frame delivered is of an incoming message, m
DeliveredTo(m) == Delivered /\ RxMsgTable(rxFrame.arbitration_id) = m

(* C15: a frame whose payload is too short for its message raises an error and
   leaves every value, graph sample, timestamp, lastReceived and rxDelta as it
   was; a frame that is long enough, whatever came before it, is decoded and
   applied. *)
C15_ShortFrameAffectsOnlyItself ==
    [][\A m \in RxSet :
          (DeliveredTo(m)' /\ rxCount' # rxCount) =>
             IF rxFrame'.dlc < DbcMessages[m].length
             THEN ~lastAct'.ok /\ UNCHANGED <<value, rxVars>>
             ELSE /\ lastAct'.ok
                  /\ timestamps'[m] = Append(timestamps[m], rxFrame'.timestamp)
                  /\ lastReceived'[m] = rxFrame'.timestamp
                  /\ value'[m] = Decode(m, rxFrame').values
                  /\ \A row \in Rows(m) :
                        graphValues'[m][row] =
                            Append(graphValues[m][row],
                                   IF IsName(value'[m][row])
                                   THEN ChoiceToNumber(DbcMessages[m].signals[row], value'[m][row])
                                   ELSE value'[m][row])]_vars

\* a short frame arrives after a frame has filled the table of its message
C15_Witness ==
    /\ Delivered
    /\ ~lastAct.ok
    /\ rxFrame.dlc = 0
    /\ \E m \in RxSet :
          /\ DeliveredTo(m)
          /\ timestamps[m] # <<>>
          /\ value[m] # InitialValues(m)


\* the step runs a handler that sends message m once, at frequency 0
OneShotOf(m) ==
    /\ lastAct'.msg = m
    /\ \/ lastAct'.op = "sendOn" /\ frequency[m] = 0
       \/ lastAct'.op = "frequencyChanged" /\ isSend[m] /\ frequency'[m] = 0
       \/ lastAct'.op = "applyChange" /\ isSend[m] /\ frequency[m] = 0
       \/ /\ lastAct'.op = "setData" /\ lastAct'.ok /\ ~isQueue[m]
          /\ isSend[m] /\ frequency[m] = 0

(* C16: when the transport's send fails during a one-shot send, the error
   leaves sendCanMessage and its caller, no frame and no messageSent signal go
   out, and no model's last-sent time is set. *)
C16_OneShotFailurePropagates ==
    [][\A m \in TxSet :
          (busFails /\ OneShotOf(m)) =>
             /\ lastAct'.raised
             /\ LogOps' \cap {"send", "messageSent"} = {}
             /\ SentTimeUpdated' = {}]_vars

\* a one-shot send of a changed payload fails
C16_Witness ==
    /\ lastAct.op = "sendOn"
    /\ lastAct.raised
    /\ busFails
    /\ frequency[lastAct.msg] = 0
    /\ data[lastAct.msg] # 0

(* C17: when the transport reports an error during a periodic tick, the task
   stays running. *)
C17_TickErrorKeepsTask ==
    [][(lastAct'.op = "tick" /\ busFails) => running' = running]_vars


(* C18: once the session is shut down no periodic task is running and no tick
   is transmitted, for any identifier. *)
C18_ShutdownStopsEveryTask ==
    isShutdown =>
        /\ running = {}
        /\ \A id \in ArbIds : RunningFor(id) = {}
        /\ "tick" \notin LogOps

\* the session is shut down while two tasks are running
C18_Witness ==
    /\ isShutdown
    /\ lastAct.op = "shutdown"
    /\ Len(busLog) = 2
    /\ busLog[1].op = "stop"
    /\ busLog[2].op = "stop"
    /\ busLog[1].msg # busLog[2].msg


(* C19: every vector of values within the signals' minimum and maximum is
   encoded, and the values decoded from its payload differ from the original
   ones by at most the scale of their signal. *)
C19_RoundTripWithinScale ==
    [][/\ lastAct'.op = "peerApply" => peer'.ok
       /\ (Delivered' /\ rxCount' # rxCount) =>
             /\ lastAct'.ok
             /\ \A row \in Rows(peer.msg) :
                   Abs(value'[peer.msg][row] - peer.value[row])
                       <= DbcMessages[peer.msg].signals[row].scale]_vars

\* a value that is no multiple of its scale has made the round trip
C19_Witness ==
    /\ Delivered
    /\ lastAct.ok
    /\ peer.msg = "Q"
    /\ peer.value[1] = 3
    /\ value["Q"][1] = 4


\* the last step typed the name of one of the signal's choices into the Value column
TypedChoice ==
    /\ lastAct.op = "setData"
    /\ IsText(lastAct.typed)
    /\ HasChoice(DbcMessages[lastAct.msg].signals[lastAct.row], lastAct.typed.text)

\* a frame of the peer, delivered: every value the peer holds by name is
\* received as that name, and every value of a signal with choices is stored
\* by name and graphed by number
NamesReceived ==
    [][(Delivered' /\ rxCount' # rxCount) =>
         \A row \in Rows(peer.msg) :
            LET sig == DbcMessages[peer.msg].signals[row]
            IN  /\ IsName(peer.value[row]) => value'[peer.msg][row] = peer.value[row]
                /\ RawOf(sig, peer.value[row]) \in DOMAIN sig.choices =>
                      /\ value'[peer.msg][row] = sig.choices[RawOf(sig, peer.value[row])]
                      /\ graphValues'[peer.msg][row][Len(graphValues'[peer.msg][row])]
                            = RawOf(sig, peer.value[row])]_vars

\* the name of a choice, typed by the operator, becomes the signal's value
NamesAccepted ==
    [][TypedChoice' =>
         /\ ~lastAct'.raised
         /\ sigValues'[lastAct'.msg][lastAct'.row] = lastAct'.typed.text]_vars

(* C20: for a signal with the choices {0: OFF, 1: ON}, a value held by name is
   encoded and decoded to the same name, received values are stored by name,
   and the operator may type the name of a choice as the signal's value. *)
C20_EnumerationFidelity == NamesReceived /\ NamesAccepted


\* the name -> value mapping getMsgData builds for a message: an entry per
\* DbcSignal of the message (names are unique within a message: a row per name)
signalDict(m) == [row \in DOMAIN value[m] |-> value[m][row]]

(* C21: for every message of the catalog, outgoing or incoming, the mapping
   getMsgData hands to the strict encode has an entry for exactly the signals
   of the message layout, and the pending values of an outgoing message cover
   the same signals. *)
C21_EverySignalHasAValue ==
    /\ \A m \in SeqToSet(dbcDb) : DOMAIN signalDict(m) = Rows(m)
    /\ \A m \in SeqToSet(txMsgs) : DOMAIN sigValues[m] = Rows(m)

\* an edit has been applied to an outgoing message and a frame has changed an
\* incoming one
C21_Witness ==
    /\ \E m \in SeqToSet(txMsgs) : value[m] # InitialValues(m)
    /\ \E m \in SeqToSet(rxMsgs) : value[m] # InitialValues(m)
    /\ lastAct.op = "discardChange"


\* the last step processed a frame for the incoming message m: it was decoded
Processed(m) == DeliveredTo(m) /\ lastAct.ok

\* the raw value of a signal in a payload
RawIn(sig, d) == (d \div Pow2(sig.start)) % Pow2(sig.length)

(* C22: a step that processes a frame for an incoming message leaves every
   signal of the message at the value the frame's payload holds for it (the
   name for a raw value that is a choice, else raw * scale + offset), whatever
   the values were before; no other step changes the values of the message, so
   the table holds the values of the last frame processed. *)
C22_TableHoldsLastFrame ==
    [][\A m \in RxSet :
          IF Processed(m)' /\ rxCount' # rxCount
          THEN \A row \in Rows(m) :
                 LET sig == DbcMessages[m].signals[row]
                     raw == RawIn(sig, rxFrame'.data)
                 IN  value'[m][row] = IF raw \in DOMAIN sig.choices THEN sig.choices[raw]
                                      ELSE raw * sig.scale + sig.offset
          ELSE value'[m] = value[m]]_vars

\* a second or later frame has changed both the number and the named value
C22_Witness ==
    /\ Processed("R")
    /\ rxCount >= 2
    /\ value["R"] = <<1, ON>>
    /\ Len(graphValues["R"][1]) >= 2
    /\ graphValues["R"][1][Len(graphValues["R"][1]) - 1] = 2
    /\ graphValues["R"][2][Len(graphValues["R"][2]) - 1] = 0


(* C23: while Queue Changes is on for a message, an accepted edit of one of its
   rows sets the pending value of that row and nothing else: the applied
   values, the payload, the Send flag, the frequency, the periodic-message table and
   the running tasks are as before, and the step makes no bus call. *)
C23_QueuedEditOnlyPending ==
    [][(Edited' /\ lastAct'.ok /\ isQueue[lastAct'.msg]) =>
         /\ sigValues' = [sigValues EXCEPT ![lastAct'.msg][lastAct'.row] =
                              RequestedValue(EditedSig', lastAct'.typed)]
         /\ busLog' = <<>>
         /\ UNCHANGED <<value, data, isSend, isQueue, frequency, sendCheckBox,
                        periodicMsgs, running>>]_vars

\* a queued edit has left a pending value that differs from the applied one,
\* while the message's task runs
C23_Witness ==
    /\ Edited
    /\ lastAct.ok
    /\ isQueue[lastAct.msg]
    /\ isSend[lastAct.msg]
    /\ running # {}
    /\ applyEnabled[lastAct.msg]
    /\ sigValues[lastAct.msg][lastAct.row] # value[lastAct.msg][lastAct.row]


\* the size the docstring of DbcSignal gives for graphValues
GraphLimit == 100

(* C24: the graph history of every signal of every incoming message holds at
   most 100 values. *)
C24_GraphHistoryBounded ==
    \A m \in RxSet : \A row \in Rows(m) : Len(graphValues[m][row]) <= GraphLimit


\* the entry of periodicMsgs under which a task's message is recorded
EntryOf(task) == periodicMsgs[DbcMessages[task.msg].frame_id]

\* the entry records the task, its period and the payload its frames carry now
Tracks(task) ==
    /\ EntryOf(task).present
    /\ EntryOf(task).task = task
    /\ EntryOf(task).period = task.period
    /\ EntryOf(task).data = data[task.msg]

(* C25: every running task is the task of the periodicMsgs entry of its
   identifier, and the period and data recorded there are the period of the
   task and the payload its frames carry; CanBusHandler.stop, called when Send
   is switched off, leaves periodicMsgs as it is. *)
C25_TableTracksTasks ==
    [][/\ \A task \in running' : Tracks(task)'
       /\ lastAct'.op = "sendOff" => periodicMsgs' = periodicMsgs]_vars


\* the running tasks that hold the Message object of m
TasksOf(m) == {t \in running : t.msg = m}

(* C26: for every outgoing message whose Send flag is on at a frequency f other
   than 0, the tasks running for its identifier are exactly one task, which
   holds the message's own Message object (and so transmits its current
   payload) and has the period 1/f. *)
C26_SendingMeansOneTask ==
    \A m \in TxSet :
        (isSend[m] /\ frequency[m] # 0) =>
            RunningFor(DbcMessages[m].frame_id) =
                {[msg |-> m, period |-> PeriodOf(frequency[m])]}

\* the frames of message m the last step transmitted
FramesOf(m) == {i \in DOMAIN busLog : busLog[i].msg = m /\ busLog[i].op \in {"send", "tick"}}

\* the last step ran a handler of message m on the operator's action
HandlerOf(m) == lastAct.msg = m /\ lastAct.op # "tick"

(* C27: an outgoing message whose Send flag is off has no running task; a step
   that begins and ends with the flag off, other than the operator's switching
   Send on for a one-shot, transmits no frame of the message; and a handler of
   the message that runs with the flag off makes no bus call. *)
C27_SendOffIsSilent ==
    [][\A m \in TxSet :
          /\ ~isSend'[m] => TasksOf(m)' = {}
          /\ (~isSend[m] /\ ~isSend'[m] /\ ~(lastAct'.op = "sendOn" /\ lastAct'.msg = m)) =>
                /\ FramesOf(m)' = {}
                /\ HandlerOf(m)' => busLog' = <<>>]_vars

(* C28: a step of the operator on one outgoing message leaves the tasks of
   every other outgoing message as they were: the same task running or none,
   with the same period, and the same payload. *)
C28_OtherTasksUntouched ==
    [][\A m \in TxSet : \A n \in TxSet \ {m} :
          HandlerOf(m)' =>
              /\ TasksOf(n)' = TasksOf(n)
              /\ data'[n] = data[n]]_vars


\* the last step switched Queue Changes of message m
QueueToggled(m) == lastAct.op = "queueChanged" /\ lastAct.msg = m

(* C29: after every step, an outgoing message whose Queue Changes is off has
   the pending value of every row equal to the applied one; the step that
   switches Queue Changes off makes the pending values the applied ones and
   encodes them into the payload. *)
C29_NoPendingWithoutQueue ==
    [][\A m \in TxSet :
          /\ ~isQueue'[m] => sigValues'[m] = value'[m]
          /\ (QueueToggled(m)' /\ isQueue[m] /\ ~isQueue'[m]) =>
                /\ value'[m] = sigValues[m]
                /\ sigValues'[m] = sigValues[m]
                /\ data'[m] = getMsgData(m, sigValues[m]).data
                /\ ~applyEnabled'[m]]_vars

\* switching Queue Changes off has applied a pending edit of a sending
\* message: its task was replaced for the new payload
C29_Witness ==
    /\ \E m \in TxSet : QueueToggled(m) /\ ~isQueue[m] /\ isSend[m]
    /\ "send_periodic" \in LogOps


(* C30: the payload of every outgoing message is the strict encoding of its
   applied signal values, which exists. *)
C30_PayloadIsEncodingOfApplied ==
    \A m \in TxSet :
        /\ getMsgData(m, value[m]).ok
        /\ data[m] = getMsgData(m, value[m]).data


(* C31: the applied value of every signal of every outgoing message, when it
   is a number, is no less than the signal's minimum and no more than its
   maximum, where the signal has them. *)
C31_AppliedValueInRange ==
    \A m \in SeqToSet(txMsgs) : \A row \in Rows(m) :
        ~IsName(value[m][row]) => InRange(DbcMessages[m].signals[row], value[m][row])


\* the last step read a frame of the log file for message m and decoded it
Loaded(m) == lastAct.op = "log" /\ lastAct.msg = m /\ lastAct.ok

(* C32: in every session that is shown, every signal of every incoming message
   has as many graph samples as the message has timestamps; a step in which a
   frame is processed for a message, received live or read from a log file,
   appends one timestamp and one sample per signal, and every other step
   leaves the timestamps and samples of the message as they were. *)
C32_OneSamplePerTimestamp ==
    [][~isShutdown' =>
         \A m \in RxSet :
            /\ \A row \in Rows(m) : Len(graphValues'[m][row]) = Len(timestamps'[m])
            /\ IF rxCount' # rxCount /\ (Processed(m)' \/ Loaded(m)')
               THEN /\ timestamps'[m] = Append(timestamps[m], rxFrame'.timestamp)
                    /\ \A row \in Rows(m) :
                          Len(graphValues'[m][row]) = Len(graphValues[m][row]) + 1
               ELSE /\ timestamps'[m] = timestamps[m]
                    /\ graphValues'[m] = graphValues[m]]_vars

\* a frame read from a log file after two others, one of them skipped
C32_Witness ==
    /\ isLogging
    /\ Loaded("R")
    /\ rxCount = 3
    /\ Len(timestamps["R"]) = 2
    /\ Len(graphValues["R"][2]) = 2


\* the raw value lies in what signal_db holds for its signal
Swept(db, v) == IF db.isDict THEN db.minimum <= v /\ v <= db.maximum ELSE v \in db.keys

(* C33: in the bus simulator the value every sender holds for a signal, and
   every value it has transmitted, lies within the raw minimum and maximum
   recorded for the signal, or is one of the recorded choice keys of a signal
   that has no range recorded. *)
C33_SimulatorValuesInRange ==
    \A m \in DOMAIN signal_values : \A row \in DOMAIN signal_values[m] :
        /\ Swept(signal_db[m][row], signal_values[m][row])
        /\ (sent.msg = m /\ sent.ok) => Swept(signal_db[m][row], sent.values[row])


\* the buses opened for a channel that are open with a running notifier
LiveOn(channel) ==
    {i \in DOMAIN sessions :
        sessions[i].channel = channel /\ sessions[i].busOpen /\ sessions[i].notifier}

(* C34: for every channel at most one bus that connectCan has opened is open
   with its notifier running, and no manager has been shut down more than
   once. *)
C34_OneLiveSessionPerChannel ==
    /\ \A channel \in Channels : Cardinality(LiveOn(channel)) <= 1
    /\ \A i \in DOMAIN sessions : sessions[i].shutdowns <= 1

=============================================================================
